---------------------------- MODULE Spec2Model ----------------------------
(***************************************************************************)
(* Model of the DDoS detection loop (src/git/ddos_detection.py) and of the *)
(* report receiver (src/app/report_receiver.py).                           *)
(*                                                                         *)
(* Strings that the code inspects character by character (pod names) are   *)
(* kept as TLA+ strings in the state; Chars gives their characters and Str *)
(* names a character sequence again.  Column names of data frames are      *)
(* tuples: <<"error_rate">>, and <<"pod_shortname", c>> for the column     *)
(* pandas names "pod_shortname_" + c.                                      *)
(***************************************************************************)
EXTENDS Integers, Sequences, FiniteSets, TLC

(***************************************************************************)
(* Bounds of the model.                                                    *)
(***************************************************************************)
MaxWindows == 1
NumActive == 2
MaxReplicas == 2
MaxCols == 3
MaxVal == 1
MaxLines == 2

(***************************************************************************)
(* Program constants.                                                      *)
(***************************************************************************)
POD_NAMES ==
    << "details-v1-54ffdd5947-vvm48",
       "productpage-v1-d49bb79b4-ds6gt",
       "ratings-v1-856f65bcff-xb6kr",
       "reviews-v1-848b8749df-6cw47",
       "reviews-v2-5fdf9886c7-m4rjm",
       "reviews-v3-bb6b8ddc7-v5rjh" >>

FallbackPod == "ratings-v2-569478494c-f8nt6"

fallback_pods == [p \in {"ratings-v1-856f65bcff-xb6kr"} |-> FallbackPod]

POD_SHORT_NAMES ==
    [p \in { POD_NAMES[i] : i \in DOMAIN POD_NAMES } |->
        CASE p = "details-v1-54ffdd5947-vvm48" -> "details"
          [] p = "productpage-v1-d49bb79b4-ds6gt" -> "product"
          [] p = "ratings-v1-856f65bcff-xb6kr" -> "ratings"
          [] p = "reviews-v1-848b8749df-6cw47" -> "reviews1"
          [] p = "reviews-v2-5fdf9886c7-m4rjm" -> "reviews2"
          [] OTHER -> "reviews3"]

threshold == 10

(***************************************************************************)
(* Strings as character sequences.                                         *)
(***************************************************************************)
Chars(name) ==
    CASE name = "details-v1-54ffdd5947-vvm48" ->
        <<"d","e","t","a","i","l","s","-","v","1","-","5","4","f","f","d","d","5","9","4","7","-","v","v","m","4","8">>
      [] name = "productpage-v1-d49bb79b4-ds6gt" ->
        <<"p","r","o","d","u","c","t","p","a","g","e","-","v","1","-","d","4","9","b","b","7","9","b","4","-","d","s","6","g","t">>
      [] name = "ratings-v1-856f65bcff-xb6kr" ->
        <<"r","a","t","i","n","g","s","-","v","1","-","8","5","6","f","6","5","b","c","f","f","-","x","b","6","k","r">>
      [] name = "reviews-v1-848b8749df-6cw47" ->
        <<"r","e","v","i","e","w","s","-","v","1","-","8","4","8","b","8","7","4","9","d","f","-","6","c","w","4","7">>
      [] name = "reviews-v2-5fdf9886c7-m4rjm" ->
        <<"r","e","v","i","e","w","s","-","v","2","-","5","f","d","f","9","8","8","6","c","7","-","m","4","r","j","m">>
      [] name = "reviews-v3-bb6b8ddc7-v5rjh" ->
        <<"r","e","v","i","e","w","s","-","v","3","-","b","b","6","b","8","d","d","c","7","-","v","5","r","j","h">>
      [] name = "ratings-v2-569478494c-f8nt6" ->
        <<"r","a","t","i","n","g","s","-","v","2","-","5","6","9","4","7","8","4","9","4","c","-","f","8","n","t","6">>
      [] name = "ratings-v1" ->
        <<"r","a","t","i","n","g","s","-","v","1">>

Str(chars) ==
    CASE chars = <<"d","e","t","a","i","l","s">> -> "details"
      [] chars = <<"p","r","o","d","u","c","t","p","a","g","e">> -> "productpage"
      [] chars = <<"r","a","t","i","n","g","s">> -> "ratings"
      [] chars = <<"r","e","v","i","e","w","s">> -> "reviews"

\* s.startswith(prefix), and the match of the regular expression '^' + prefix.
StartsWith(s, prefix) ==
    /\ Len(prefix) <= Len(s)
    /\ \A i \in 1..Len(prefix) : s[i] = prefix[i]

\* s.split(sep)[0]: the characters before the first separator.
RECURSIVE SplitFirstFrom(_, _, _)
SplitFirstFrom(s, sep, i) ==
    IF i > Len(s) \/ s[i] = sep THEN SubSeq(s, 1, i - 1)
    ELSE SplitFirstFrom(s, sep, i + 1)

SplitFirst(s, sep) == SplitFirstFrom(s, sep, 1)

\* short_name = POD_SHORT_NAMES.get(pod_name, pod_name.split('-')[0])
ShortName(pod_name) ==
    IF pod_name \in DOMAIN POD_SHORT_NAMES THEN POD_SHORT_NAMES[pod_name]
    ELSE Str(SplitFirst(Chars(pod_name), "-"))

(***************************************************************************)
(* Data frames: the ordered column names and the rows, each a function     *)
(* from the column names to values.                                        *)
(***************************************************************************)
SeqToSet(s) == { s[i] : i \in DOMAIN s }

Frame(cols, rows) == [columns |-> cols, rows |-> rows]

EmptyFrame == Frame(<<>>, <<>>)

\* df.drop(columns=D)
DropColumns(df, D) ==
    LET keep == SelectSeq(df.columns, LAMBDA c : c \notin D)
    IN Frame(keep,
             [i \in DOMAIN df.rows |-> [c \in SeqToSet(keep) |-> df.rows[i][c]]])

\* df[col] = 0 for a column the frame does not have: appended as last column.
AddZeroColumn(df, col) ==
    Frame(Append(df.columns, col),
          [i \in DOMAIN df.rows |->
              [c \in SeqToSet(df.columns) \cup {col} |->
                  IF c = col THEN 0 ELSE df.rows[i][c]]])

\* The order pandas sorts the categories in (lexicographic).
CategoryOrder ==
    << "details", "product", "productpage", "ratings", "reviews",
       "reviews1", "reviews2", "reviews3" >>

\* pd.get_dummies(df, columns=[col], drop_first=True): the categories are the
\* values observed in df[col], sorted; the first one gets no indicator column;
\* the column itself is removed and the indicators are appended.
GetDummiesDropFirst(df, col) ==
    LET observed == { df.rows[i][col] : i \in DOMAIN df.rows }
        cats == SelectSeq(CategoryOrder, LAMBDA c : c \in observed)
        kept == IF cats = <<>> THEN <<>> ELSE Tail(cats)
        rest == SelectSeq(df.columns, LAMBDA c : c # col)
        ind == [k \in DOMAIN kept |-> <<col[1], kept[k]>>]
    IN Frame(rest \o ind,
             [i \in DOMAIN df.rows |->
                 [c \in SeqToSet(rest) \cup SeqToSet(ind) |->
                     IF c \in SeqToSet(rest) THEN df.rows[i][c]
                     ELSE IF df.rows[i][col] = c[2] THEN 1 ELSE 0]])

\* predict_ddos, "for col in needed_cols: if col not in df.columns: df[col] = 0"
RECURSIVE AddMissing(_, _, _)
AddMissing(df, needed_cols, k) ==
    IF k > Len(needed_cols) THEN df
    ELSE IF needed_cols[k] \in SeqToSet(df.columns)
         THEN AddMissing(df, needed_cols, k + 1)
         ELSE AddMissing(AddZeroColumn(df, needed_cols[k]), needed_cols, k + 1)

\* predict_ddos, lines 179-187: align the frame to model.feature_names_in_.
Reconcile(df, needed_cols) ==
    LET filled == AddMissing(df, needed_cols, 1)
        extra_cols == SeqToSet(filled.columns) \ SeqToSet(needed_cols)
    IN IF extra_cols # {} THEN DropColumns(filled, extra_cols) ELSE filled

\* predict_ddos, lines 169-187: the frame handed to model.predict.  A model is
\* [has |-> whether it has feature_names_in_, names |-> that attribute].
InferenceFrame(features_df, model) ==
    LET noTs == IF <<"timestamp">> \in SeqToSet(features_df.columns)
                THEN DropColumns(features_df, {<<"timestamp">>})
                ELSE features_df
        enc == IF <<"pod_shortname">> \in SeqToSet(noTs.columns)
               THEN GetDummiesDropFirst(noTs, <<"pod_shortname">>)
               ELSE noTs
    IN IF model.has THEN Reconcile(enc, model.names) ELSE enc


(***************************************************************************)
(* extract_features.  A line of the log file is "<timestamp> <payload>":   *)
(* [kind |-> "blank"] is an empty line, "token" a line without a space,    *)
(* "text" a line whose payload does not start with '{', "badjson" one      *)
(* whose payload fails to decode, and "json" one whose payload decodes to  *)
(* the dict data.  timestamp is the time of the line in seconds.           *)
(***************************************************************************)
\* Variant: the comparison of the log count is off by one.
BelowThresholdOffByOne(log_count) == log_count < threshold - 1

\* extract_features, line 78: "if log_count < threshold: return None"
BelowThreshold(log_count) == log_count < threshold

\* time_window = '20s'
time_window == 20

\* Variant: a line whose payload fails to decode is kept as an empty record.
ParseLineKeepsUndecoded(line, short_name) ==
    IF line.kind \in {"blank", "token", "text"} THEN <<>>
    ELSE LET data == IF line.kind = "json" THEN line.data ELSE << >>
         IN << [k \in DOMAIN data \cup {"timestamp", "pod_shortname"} |->
                   IF k = "timestamp" THEN line.timestamp
                   ELSE IF k = "pod_shortname" THEN short_name
                   ELSE data[k]] >>

\* extract_features, lines 85-110: what a line appends to parsed_logs.
ParseLine(line, short_name) ==
    IF line.kind = "blank" THEN <<>>                     \* "if not line"
    ELSE IF line.kind = "token" THEN <<>>                \* len(parts) < 2
    ELSE IF line.kind = "text" THEN <<>>                 \* no leading '{'
    ELSE IF line.kind = "badjson" THEN <<>>              \* JSONDecodeError
    ELSE << [k \in DOMAIN line.data \cup {"timestamp", "pod_shortname"} |->
               IF k = "timestamp" THEN line.timestamp
               ELSE IF k = "pod_shortname" THEN short_name
               ELSE line.data[k]] >>

RECURSIVE ParsedLogs(_, _, _)
ParsedLogs(log_lines, k, short_name) ==
    IF k > Len(log_lines) THEN <<>>
    ELSE ParseLine(log_lines[k], short_name)
            \o ParsedLogs(log_lines, k + 1, short_name)

\* "'client_ip' in group": the frame has the column when a record has the key.
HasColumn(logs_df, c) == \E i \in DOMAIN logs_df : c \in DOMAIN logs_df[i]

\* The bin of resample('20s') a time falls in; the bins start at multiples
\* of the window.
Bucket(t) == t \div time_window

\* The rows of a bin, in the order of the frame.
Group(logs_df, b) == SelectSeq(logs_df, LAMBDA r : Bucket(r.timestamp) = b)

\* A float that is a quotient of two counts; den = 0 is NaN.
Frac(n, d) == [num |-> n, den |-> d]

\* Variant: a response code counts as an error above 400 only.
IsErrorAbove(response_code) == response_code > 400

\* extract_features, line 135: "group['response_code'] >= 400"
IsError(response_code) == response_code >= 400

RECURSIVE SumOf(_, _, _)
SumOf(group, key, k) ==
    IF k > Len(group) THEN 0
    ELSE (IF key \in DOMAIN group[k] THEN group[k][key] ELSE 0)
            + SumOf(group, key, k + 1)

\* Variant: a bin without rows is not skipped.
SkipNoGroup(group) == FALSE

\* extract_features, lines 125-126: "if group.empty: continue"
SkipGroup(group) == group = <<>>

\* extract_features, lines 128-147: the feature vector of a bin.  A record
\* without a key has NaN in that column: nunique, groupby, the comparison
\* and mean leave it out.
FeatureVector(logs_df, group, b, short_name) ==
    LET total_requests == Len(group)
        withIp == { i \in DOMAIN group : "client_ip" \in DOMAIN group[i] }
        ips == { group[i].client_ip : i \in withIp }
        hasIp == HasColumn(logs_df, "client_ip")
        requests_per_ip ==
            [ip \in (IF hasIp THEN ips ELSE {}) |->
                Cardinality({ i \in withIp : group[i].client_ip = ip })]
        sizes == { requests_per_ip[ip] : ip \in DOMAIN requests_per_ip }
        errors == { i \in DOMAIN group :
                      /\ "response_code" \in DOMAIN group[i]
                      /\ IsError(group[i].response_code) }
        withDuration == { i \in DOMAIN group : "duration" \in DOMAIN group[i] }
    IN [timestamp |-> b * time_window,
        total_requests |-> total_requests,
        unique_ips |-> IF hasIp THEN Cardinality(ips) ELSE 0,
        max_requests_per_ip |->
            IF sizes = {} THEN 0
            ELSE CHOOSE m \in sizes : \A n \in sizes : n <= m,
        avg_requests_per_ip |->
            IF sizes = {} THEN Frac(0, 1)
            ELSE Frac(Cardinality(withIp), Cardinality(ips)),
        error_rate |->
            IF total_requests > 0 /\ HasColumn(logs_df, "response_code")
            THEN Frac(Cardinality(errors) * 100, total_requests)
            ELSE Frac(0, 1),
        avg_response_time |->
            IF HasColumn(logs_df, "duration")
            THEN Frac(SumOf(group, "duration", 1), Cardinality(withDuration))
            ELSE Frac(0, 1),
        pod_shortname |-> short_name]

\* extract_features, lines 121-148: the vectors of the bins b..hi.
RECURSIVE FeatureVectors(_, _, _, _)
FeatureVectors(logs_df, b, hi, short_name) ==
    IF b > hi THEN <<>>
    ELSE (IF SkipGroup(Group(logs_df, b)) THEN <<>>
          ELSE << FeatureVector(logs_df, Group(logs_df, b), b, short_name) >>)
            \o FeatureVectors(logs_df, b + 1, hi, short_name)

None == [none |-> TRUE, vectors |-> <<>>]

\* extract_features: a file is [exists, lines]; the result is None or the
\* rows of features_df.
extract_features(log_file, pod) ==
    IF ~log_file.exists THEN None
    ELSE IF BelowThreshold(Len(log_file.lines)) THEN None
    ELSE LET short_name == ShortName(pod)
             parsed_logs == ParsedLogs(log_file.lines, 1, short_name)
         IN IF parsed_logs = <<>> THEN None
            ELSE LET bins == { Bucket(parsed_logs[i].timestamp) :
                                 i \in DOMAIN parsed_logs }
                     lo == CHOOSE b \in bins : \A c \in bins : b <= c
                     hi == CHOOSE b \in bins : \A c \in bins : c <= b
                     feature_vectors ==
                         FeatureVectors(parsed_logs, lo, hi, short_name)
                 IN IF feature_vectors = <<>> THEN None
                    ELSE [none |-> FALSE, vectors |-> feature_vectors]


(***************************************************************************)
(* State.                                                                  *)
(***************************************************************************)
VARIABLES
    pc,               \* position of main(): collect, extract, predict,
                      \* explain, post, sleep (crashed: main() has exited)
    podIdx,           \* position of "for pod_name in POD_NAMES" (1-based)
    pod_name,         \* the loop variable pod_name
    logFiles,         \* /tmp/access_logs_<pod>.txt: number of lines, -1: no file
    features_df,      \* rows of features_df of the current pod, 0: None
    global_ddos_rows, \* list of [pod_name, rows] with the rows predicted 1
    all_explanations, \* rows (pod_name, original_index) explained this cycle
    virtualService,   \* spec.http[0].route of VirtualService ratings-route
    replicas,         \* spec.replicas of Deployment ratings-v1
    lastCollect,      \* last collect_logs call of the cycle: pod, outcome, n
    nfSeen,           \* ratings-v1 was NotFound: "never", "this" cycle, "earlier"
    lastRemedy,       \* last switch_ratings_traffic_to_v2: what each patch did
    streak,           \* invocations in a row that made both patches, capped at 2
    cycRoutePatches,  \* route patches issued for this cycle's report
    cycScalePatches,  \* replica patches issued for this cycle's report
    sinkStage,        \* how far the sink got with this cycle's report
    postResult,       \* what post_report_to_receiver logged this cycle
    lastUpload,       \* the last upload of a client other than the loop: the
                      \* request, whether it was saved and read, the response
    explainCalled,    \* explain_all_ddos_rows was called this cycle
    explainRaised,    \* explain_all_ddos_rows left with an exception this cycle
    labeled,          \* the rows model.predict labeled 1 this cycle
    rowFailures,      \* the rows whose explanation raised this cycle
    posts,            \* the reports POSTed this cycle, in order
    encIn, encModel, encOut, encDone,  \* the encoding applied on its own
    extFile, extPod, extOut, extDone   \* extract_features applied on its own

loopVars ==
    << pc, podIdx, pod_name, logFiles, features_df, global_ddos_rows,
       all_explanations, lastCollect, nfSeen, cycRoutePatches,
       cycScalePatches, sinkStage, postResult, explainCalled, explainRaised,
       labeled, rowFailures, posts >>

clusterVars == << virtualService, replicas, lastRemedy, streak >>

encVars == << encIn, encModel, encOut, encDone >>

extVars == << extFile, extPod, extOut, extDone >>

vars == << loopVars, clusterVars, lastUpload, encVars, extVars >>

SuspectPod == "ratings-v1-856f65bcff-xb6kr"

Min(a, b) == IF a < b THEN a ELSE b

\* The pods whose sidecar has traffic to log; the others return empty logs.
ActivePods ==
    { POD_NAMES[i] : i \in 3..Min(2 + NumActive, Len(POD_NAMES)) } \cup {FallbackPod}

AllFiles == SeqToSet(POD_NAMES) \cup {FallbackPod}

(***************************************************************************)
(* The cluster: VirtualService ratings-route and Deployment ratings-v1.    *)
(***************************************************************************)
Dest(subset, weight) == [subset |-> subset, weight |-> weight]

\* patch_body["spec"]["http"][0]["route"]
patch_body == << Dest("v1", 0), Dest("v2", 100) >>

\* A JSON merge patch replaces a list as a whole.
MergePatchRoute(route, body) == body

\* Variant: the replica count is toggled between 0 and 1.
ScaleToggle(current) == IF current = 0 THEN 1 ELSE 0

\* Variant: the deployment is scaled down by one replica.
ScaleDownByOne(current) == IF current > 0 THEN current - 1 ELSE 0

\* body={"spec": {"replicas": 0}}
ScaleBody(current) == 0

Weight(route, subset) ==
    IF \E i \in DOMAIN route : route[i].subset = subset
    THEN route[CHOOSE i \in DOMAIN route : route[i].subset = subset].weight
    ELSE 0

InitialRoutes ==
    { << Dest("v1", 100), Dest("v2", 0) >>,
      << Dest("v1", 0), Dest("v2", 100) >>,
      << Dest("v1", 80), Dest("v2", 10), Dest("v3", 10) >> }

NoRemedy == [route |-> "none", scale |-> "none"]

\* switch_ratings_traffic_to_v2: the credentials are loaded, the route is
\* patched, then the deployment is scaled; an exception of a call ends it.
switch_ratings_traffic_to_v2(route, reps, credsOk, routeOk, scaleOk) ==
    IF ~credsOk THEN
        [route |-> route, replicas |-> reps, routeCalls |-> 0, scaleCalls |-> 0,
         remedy |-> [route |-> "no_creds", scale |-> "none"], raised |-> TRUE]
    ELSE IF ~routeOk THEN
        [route |-> route, replicas |-> reps, routeCalls |-> 1, scaleCalls |-> 0,
         remedy |-> [route |-> "fail", scale |-> "none"], raised |-> TRUE]
    ELSE IF ~scaleOk THEN
        [route |-> MergePatchRoute(route, patch_body), replicas |-> reps,
         routeCalls |-> 1, scaleCalls |-> 1,
         remedy |-> [route |-> "ok", scale |-> "fail"], raised |-> TRUE]
    ELSE
        [route |-> MergePatchRoute(route, patch_body),
         replicas |-> ScaleBody(reps), routeCalls |-> 1, scaleCalls |-> 1,
         remedy |-> [route |-> "ok", scale |-> "ok"], raised |-> FALSE]

(***************************************************************************)
(* The report receiver.                                                    *)
(***************************************************************************)
\* Variant: the report triggers the fail-over when every row names ratings-v1.
ReportFlagsEveryRow(rows) ==
    rows # {} /\ \A p \in rows : StartsWith(Chars(p), Chars("ratings-v1"))

\* Variant: the report triggers the fail-over whatever pods it names.
ReportFlagsAnyPod(rows) == rows # {}

\* df['pod_name'].str.contains(r'^ratings-v1').any()
ReportFlagsRatingsV1(rows) ==
    \E p \in rows : StartsWith(Chars(p), Chars("ratings-v1"))

\* upload(): a request is [hasFile, filename, rows], rows being the pod_name
\* column of the CSV.  e is what the environment does: whether the save, the
\* read of the CSV, the credentials and each patch succeed.
upload(req, route, reps, e) ==
    LET unchanged(status, stage) ==
            [status |-> status, stage |-> stage, triggered |-> FALSE,
             route |-> route, replicas |-> reps, routeCalls |-> 0,
             scaleCalls |-> 0, remedy |-> NoRemedy]
    IN IF ~req.hasFile THEN unchanged(400, "rejected")
       ELSE IF req.filename = "" THEN unchanged(400, "rejected")
       ELSE IF ~e.saveOk THEN unchanged(500, "save_failed")
       ELSE IF ~e.readOk THEN unchanged(200, "unreadable")
       ELSE IF ~ReportFlagsRatingsV1(req.rows) THEN unchanged(200, "no_match")
       ELSE LET s == switch_ratings_traffic_to_v2(route, reps, e.credsOk,
                                                  e.routeOk, e.scaleOk)
            IN [status |-> 200,
                stage |-> IF e.credsOk THEN "patching" ELSE "no_creds",
                triggered |-> TRUE, route |-> s.route,
                replicas |-> s.replicas, routeCalls |-> s.routeCalls,
                scaleCalls |-> s.scaleCalls, remedy |-> s.remedy]

SinkEnvs ==
    [saveOk : BOOLEAN, readOk : BOOLEAN, credsOk : BOOLEAN,
     routeOk : BOOLEAN, scaleOk : BOOLEAN]

\* The cluster after the sink handled an upload with result u.
ApplyUpload(u) ==
    /\ virtualService' = u.route
    /\ replicas' = u.replicas
    /\ lastRemedy' = IF u.triggered THEN u.remedy ELSE lastRemedy
    /\ streak' = IF ~u.triggered THEN streak
                 ELSE IF u.remedy = [route |-> "ok", scale |-> "ok"]
                      THEN Min(streak + 1, 2) ELSE 0


(***************************************************************************)
(* The detection loop.                                                     *)
(***************************************************************************)
\* What read_namespaced_pod_log does for a pod: a log of some lines, a 404
\* ApiException, or another failure.
LineCounts(pod) ==
    IF pod \in ActivePods THEN {0, threshold - 1, threshold} ELSE {0}

ApiResults(pod) ==
    { [kind |-> "ok", lines |-> n] : n \in LineCounts(pod) }
        \cup { [kind |-> "NotFound", lines |-> 0], [kind |-> "error", lines |-> 0] }

\* collect_logs, lines 58-61: what the two except clauses let out of
\* collect_logs when the log read fails with the given kind of exception.
CollectLogsReraises(kind) == "none"

\* Variant: the file is opened for appending and keeps its lines.
KeepFile(n) == IF n < 0 THEN 0 ELSE n

\* collect_logs, line 44: "open(log_file, 'w').close()" empties the file.
TruncateFile(n) == 0

\* collect_logs: the credentials are loaded (a failure of both loaders leaves
\* as a ConfigException), the file is emptied, and the log is appended.
collect_logs(files, pod, cfgOk, api) ==
    IF ~cfgOk THEN [files |-> files, raised |-> "ConfigException"]
    ELSE LET emptied == [files EXCEPT ![pod] = TruncateFile(files[pod])]
         IN IF api.kind = "ok"
            THEN [files |-> [emptied EXCEPT ![pod] = emptied[pod] + api.lines],
                  raised |-> "none"]
            ELSE [files |-> emptied, raised |-> CollectLogsReraises(api.kind)]

\* Variant: the while loop catches ApiException only.
CatchApiOnly(exc) == exc \in {"NotFound", "error"}

\* main, line 397: "except Exception" of the while loop.
CatchAll(exc) == TRUE

\* Where main() is after an exception left the for loop or the explanation.
AfterException(exc) == IF CatchAll(exc) THEN "sleep" ELSE "crashed"

\* Variant: the for loop stops after the third pod.
LoopDoneEarly(i) == i > 3

\* main, line 349: whether the for loop has another pod.
LoopDone(i) == i > Len(POD_NAMES)

\* Variant: explain_all_ddos_rows is called inside the for loop.
AfterIterationIndented(i) == "explain"

\* main, lines 349 and 395: after an iteration the for loop goes on with pod
\* i, or is left, and then explain_all_ddos_rows is called.
AfterIteration(i) == IF LoopDone(i) THEN "explain" ELSE "collect"

\* The end of one iteration of the for loop (also "continue").
NextPod ==
    /\ podIdx' = podIdx + 1
    /\ pc' = AfterIteration(podIdx + 1)
    /\ pod_name' = IF LoopDone(podIdx + 1) THEN pod_name ELSE POD_NAMES[podIdx + 1]
    /\ features_df' = 0

NoCollect == [pod |-> "none", outcome |-> "none", n |-> 0, lines |-> 0]

AllOk ==
    [saveOk |-> TRUE, readOk |-> TRUE, credsOk |-> TRUE, routeOk |-> TRUE,
     scaleOk |-> TRUE]

\* main, lines 350-373: collect the logs of the pod.  cfgOk2 and api2 are
\* what the environment does for the collection of the fallback.
Collect ==
    /\ pc = "collect"
    /\ ~LoopDone(podIdx)
    /\ \E cfgOk \in BOOLEAN, api \in ApiResults(pod_name),
          cfgOk2 \in BOOLEAN, api2 \in ApiResults(FallbackPod) :
        LET p == pod_name
            c1 == collect_logs(logFiles, p, cfgOk, api)
            fellBack == c1.raised = "NotFound" /\ p \in DOMAIN fallback_pods
            c2 == collect_logs(c1.files, fallback_pods[p], cfgOk2, api2)
            out == IF fellBack THEN c2.raised ELSE c1.raised
            calls == IF fellBack THEN 2 ELSE 1
            now == IF fellBack THEN fallback_pods[p] ELSE p
        IN \* what the environment does for a call that is not made is fixed
           /\ (~fellBack => cfgOk2 /\ api2.kind = "error")
           /\ (~cfgOk => api.kind = "error")
           /\ (fellBack /\ ~cfgOk2 => api2.kind = "error")
           /\ logFiles' = IF fellBack THEN c2.files ELSE c1.files
           /\ lastCollect' =
                [pod |-> now,
                 outcome |-> IF fellBack THEN (IF cfgOk2 THEN api2.kind ELSE "config")
                             ELSE IF cfgOk THEN api.kind ELSE "config",
                 n |-> lastCollect.n + calls,
                 lines |-> IF fellBack
                           THEN (IF cfgOk2 /\ api2.kind = "ok" THEN api2.lines ELSE 0)
                           ELSE IF cfgOk /\ api.kind = "ok" THEN api.lines ELSE 0]
           /\ nfSeen' = IF p = SuspectPod /\ cfgOk /\ api.kind = "NotFound"
                           /\ nfSeen = "never"
                        THEN "this" ELSE nfSeen
           /\ IF out = "none" THEN
                 /\ pc' = "extract"
                 /\ pod_name' = now
                 /\ UNCHANGED << podIdx, features_df >>
              ELSE IF out \in {"NotFound", "error"} /\ ~fellBack THEN
                 \* an ApiException and no fallback: "continue"
                 NextPod
              ELSE
                 /\ pc' = AfterException(out)
                 /\ pod_name' = now
                 /\ UNCHANGED << podIdx, features_df >>
    /\ UNCHANGED << global_ddos_rows, all_explanations, cycRoutePatches,
                    cycScalePatches, sinkStage, postResult, explainCalled,
                    explainRaised, labeled, rowFailures, posts >>
    /\ UNCHANGED << clusterVars, lastUpload, encVars, extVars >>

\* extract_features as main uses it (lines 375-376): None below the threshold
\* or when no line parses, else the windows; an exception leaves main's loop.
Extract ==
    /\ pc = "extract"
    /\ \E raises \in BOOLEAN, windows \in 0..MaxWindows :
        /\ (BelowThreshold(logFiles[pod_name]) => ~raises /\ windows = 0)
        /\ (raises => windows = 0)
        /\ IF raises THEN
              /\ pc' = AfterException("TypeError")
              /\ UNCHANGED << podIdx, pod_name, features_df >>
           ELSE IF windows = 0 THEN
              NextPod
           ELSE
              /\ pc' = "predict"
              /\ features_df' = windows
              /\ UNCHANGED << podIdx, pod_name >>
    /\ UNCHANGED << logFiles, global_ddos_rows, all_explanations,
                    lastCollect, nfSeen, cycRoutePatches, cycScalePatches,
                    sinkStage, postResult, explainCalled, explainRaised,
                    labeled, rowFailures, posts >>
    /\ UNCHANGED << clusterVars, lastUpload, encVars, extVars >>

\* The timestamp of row i of features_df: the start of its window.
WindowTime(i) == i * time_window

\* Variant: the rows are not masked by the prediction.
DdosRowsUnmasked(pod, predictions) ==
    { [original_index |-> i, timestamp |-> WindowTime(i), pod_name |-> pod] :
        i \in DOMAIN predictions }

\* predict_ddos, lines 192-197: the rows predicted 1, each with its index in
\* features_df, its timestamp and the pod.
DdosRows(pod, predictions) ==
    { [original_index |-> i, timestamp |-> WindowTime(i), pod_name |-> pod] :
        i \in { j \in DOMAIN predictions : predictions[j] = 1 } }

\* predict_ddos and main, lines 379-393: the rows predicted 1 are appended to
\* global_ddos_rows; an exception inside predict_ddos is caught there.
Predict ==
    /\ pc = "predict"
    /\ \E raises \in BOOLEAN, predictions \in [0..(features_df - 1) -> {0, 1}] :
        LET ddos_rows_for_model ==
                IF raises THEN {} ELSE DdosRows(pod_name, predictions)
        IN /\ (raises => \A i \in DOMAIN predictions : predictions[i] = 0)
           /\ global_ddos_rows' =
                 IF ddos_rows_for_model # {}
                 THEN Append(global_ddos_rows,
                             [pod_name |-> pod_name, rows |-> ddos_rows_for_model])
                 ELSE global_ddos_rows
           /\ labeled' =
                 labeled \cup
                     { [pod_name |-> pod_name, original_index |-> i,
                        timestamp |-> WindowTime(i)] :
                          i \in { j \in DOMAIN predictions : predictions[j] = 1 } }
    /\ NextPod
    /\ UNCHANGED << logFiles, all_explanations, lastCollect,
                    nfSeen, cycRoutePatches, cycScalePatches, sinkStage,
                    postResult, explainCalled, explainRaised, rowFailures,
                    posts >>
    /\ UNCHANGED << clusterVars, lastUpload, encVars, extVars >>

\* pd.concat(ddos_rows_list): the rows of the batch.
CombinedRows(ddos_rows_list) ==
    UNION { ddos_rows_list[i].rows : i \in DOMAIN ddos_rows_list }

\* Variant: the first row whose explanation raises ends the explanation.
ExplainRowsUntilFailure(rows, failing) == IF failing = {} THEN rows ELSE {}

\* explain_all_ddos_rows, lines 265-285: the try/except inside the loop over
\* the rows leaves out a row whose explanation raises.
ExplainRows(rows, failing) == rows \ failing

\* explain_all_ddos_rows up to line 291: nothing to do for an empty list; the
\* set-up (model, train_sample.csv) can raise; a row whose explanation raises
\* is left out; the explained rows are written to the CSV in /tmp.
Explain ==
    /\ pc = "explain"
    /\ explainCalled' = TRUE
    /\ \E setupOk \in BOOLEAN, failing \in SUBSET CombinedRows(global_ddos_rows) :
        IF global_ddos_rows = <<>> THEN
            /\ setupOk /\ failing = {}
            /\ pc' = "sleep"
            /\ UNCHANGED << all_explanations, explainRaised, rowFailures >>
        ELSE IF ~setupOk THEN
            /\ failing = {}
            /\ pc' = AfterException("explain")
            /\ explainRaised' = TRUE
            /\ UNCHANGED << all_explanations, rowFailures >>
        ELSE
            /\ all_explanations' =
                  ExplainRows(CombinedRows(global_ddos_rows), failing)
            /\ rowFailures' = failing
            /\ pc' = IF all_explanations' # {} THEN "post" ELSE "sleep"
            /\ UNCHANGED explainRaised
    /\ UNCHANGED << podIdx, pod_name, logFiles, features_df,
                    global_ddos_rows, lastCollect, nfSeen, cycRoutePatches,
                    cycScalePatches, sinkStage, postResult, labeled, posts >>
    /\ UNCHANGED << clusterVars, lastUpload, encVars, extVars >>

\* What the environment does for a call the handler does not make is fixed.
EnvFits(u, e) ==
    /\ (u.stage = "rejected" => e.saveOk)
    /\ (u.stage \in {"rejected", "save_failed"} => e.readOk)
    /\ (u.stage \notin {"patching", "no_creds"} => e.credsOk)
    /\ (u.routeCalls = 0 => e.routeOk)
    /\ (u.scaleCalls = 0 => e.scaleOk)

\* Variant: a POST that did not get a 200 is sent again.
AfterPostRetry(result) == IF result = "posted" THEN "sleep" ELSE "post"

\* post_report_to_receiver, lines 308-319, and main: whatever the POST gave,
\* the function returns and the cycle ends.
AfterPost(result) == "sleep"

\* post_report_to_receiver: one requests.post of the CSV; the sink handles the
\* upload before the call returns; a transport error is caught and logged.
Post ==
    /\ pc = "post"
    /\ \E delivered \in BOOLEAN, e \in SinkEnvs :
        LET req == [hasFile |-> TRUE, filename |-> "lime_explanations_cycle.csv",
                    rows |-> { r.pod_name : r \in all_explanations }]
            u == upload(req, virtualService, replicas, e)
        IN IF ~delivered THEN
              /\ e = AllOk
              /\ postResult' = "error"
              /\ sinkStage' = "not_delivered"
              /\ UNCHANGED << clusterVars, cycRoutePatches, cycScalePatches >>
           ELSE
              /\ EnvFits(u, e)
              /\ ApplyUpload(u)
              /\ postResult' = IF u.status = 200 THEN "posted" ELSE "failed"
              /\ sinkStage' = u.stage
              /\ cycRoutePatches' = cycRoutePatches + u.routeCalls
              /\ cycScalePatches' = cycScalePatches + u.scaleCalls
    /\ posts' = Append(posts, all_explanations)
    /\ pc' = AfterPost(postResult')
    /\ UNCHANGED << podIdx, pod_name, logFiles, features_df,
                    global_ddos_rows, all_explanations, lastCollect, nfSeen,
                    explainCalled, explainRaised, labeled, rowFailures >>
    /\ UNCHANGED << lastUpload, encVars, extVars >>

\* time.sleep(60), then the next pass: global_ddos_rows = [] and the for loop
\* binds the first pod.
Sleep ==
    /\ pc = "sleep"
    /\ pc' = "collect"
    /\ podIdx' = 1
    /\ pod_name' = POD_NAMES[1]
    /\ global_ddos_rows' = <<>>
    /\ all_explanations' = {}
    /\ features_df' = 0
    /\ lastCollect' = NoCollect
    /\ nfSeen' = IF nfSeen = "this" THEN "earlier" ELSE nfSeen
    /\ cycRoutePatches' = 0
    /\ cycScalePatches' = 0
    /\ sinkStage' = "none"
    /\ postResult' = "none"
    /\ explainCalled' = FALSE
    /\ explainRaised' = FALSE
    /\ labeled' = {}
    /\ rowFailures' = {}
    /\ posts' = <<>>
    /\ UNCHANGED logFiles
    /\ UNCHANGED << clusterVars, lastUpload, encVars, extVars >>

Next == Collect \/ Extract \/ Predict \/ Explain \/ Post \/ Sleep

EncIdle ==
    /\ encIn = EmptyFrame
    /\ encModel = [has |-> FALSE, names |-> <<>>]
    /\ encOut = EmptyFrame
    /\ encDone = FALSE

ExtIdle ==
    /\ extFile = [exists |-> FALSE, lines |-> <<>>]
    /\ extPod = SuspectPod
    /\ extOut = None
    /\ extDone = FALSE

LoopInit ==
    /\ pc = "collect"
    /\ podIdx = 1
    /\ pod_name = POD_NAMES[1]
    /\ logFiles = [f \in AllFiles |-> -1]
    /\ features_df = 0
    /\ global_ddos_rows = <<>>
    /\ all_explanations = {}
    /\ lastCollect = NoCollect
    /\ nfSeen = "never"
    /\ cycRoutePatches = 0
    /\ cycScalePatches = 0
    /\ sinkStage = "none"
    /\ postResult = "none"
    /\ explainCalled = FALSE
    /\ explainRaised = FALSE
    /\ labeled = {}
    /\ rowFailures = {}
    /\ posts = <<>>

ClusterInit ==
    /\ virtualService \in InitialRoutes
    /\ replicas \in 0..MaxReplicas
    /\ lastRemedy = NoRemedy
    /\ streak = 0
    /\ lastUpload = [req |-> [hasFile |-> FALSE, filename |-> "", rows |-> {}],
                     saved |-> TRUE, read |-> TRUE, status |-> 0,
                     stage |-> "none", triggered |-> FALSE]

\* The loop starts with ratings-v1 deployed.
Init ==
    /\ LoopInit
    /\ ClusterInit
    /\ replicas = MaxReplicas
    /\ EncIdle
    /\ ExtIdle

Spec == Init /\ [][Next]_vars

\* The loop is a running process: it takes its next step.
LiveSpec == Spec /\ WF_vars(Next)

(***************************************************************************)
(* The report receiver on its own: any client posts to /upload.            *)
(***************************************************************************)
UploadRequests ==
    { [hasFile |-> h, filename |-> f, rows |-> r] :
        h \in BOOLEAN, f \in {"", "report.csv"},
        r \in { {}, {SuspectPod}, {SuspectPod, FallbackPod},
                 {FallbackPod, "reviews-v1-848b8749df-6cw47"} } }

Upload ==
    /\ \E req \in UploadRequests, e \in SinkEnvs :
        LET u == upload(req, virtualService, replicas, e)
        IN /\ (~req.hasFile => req.filename = "" /\ req.rows = {})
           /\ EnvFits(u, e)
           /\ ApplyUpload(u)
           /\ lastUpload' = [req |-> req, saved |-> e.saveOk, read |-> e.readOk,
                             status |-> u.status, stage |-> u.stage,
                             triggered |-> u.triggered]
    /\ UNCHANGED << loopVars, encVars, extVars >>

SinkInit == LoopInit /\ ClusterInit /\ EncIdle /\ ExtIdle

SinkSpec == SinkInit /\ [][Upload]_vars


(***************************************************************************)
(* The encoding of predict_ddos on its own: a frame and a model are given, *)
(* and the frame handed to model.predict is computed.                      *)
(***************************************************************************)
Letters == << <<"a">>, <<"b">>, <<"c">>, <<"d">> >>

\* The sequences without repetition of at most n of the given names.
Arrangements(names, n) ==
    { q \in UNION { [1..k -> names] : k \in 0..n } :
        \A i, j \in DOMAIN q : i # j => q[i] # q[j] }

\* One-row frames over the letters, every value in 1..MaxVal.
GenericFrames ==
    UNION { { Frame(cols, << row >>) : row \in [SeqToSet(cols) -> 1..MaxVal] }
            : cols \in Arrangements(SeqToSet(Letters), MaxCols) }

\* extract_features, lines 138-147: the columns of features_df.
FEATURE_COLS ==
    << <<"timestamp">>, <<"total_requests">>, <<"unique_ips">>,
       <<"max_requests_per_ip">>, <<"avg_requests_per_ip">>, <<"error_rate">>,
       <<"avg_response_time">>, <<"pod_shortname">> >>

\* A features_df of n windows of a pod, as extract_features builds it.
FeatureFrame(pod, n) ==
    Frame(FEATURE_COLS,
          [i \in 1..n |->
              [c \in SeqToSet(FEATURE_COLS) |->
                  IF c = <<"pod_shortname">> THEN ShortName(pod)
                  ELSE IF c = <<"timestamp">> THEN i
                  ELSE 1]])

FeatureFrames == { FeatureFrame(p, n) : p \in AllFiles, n \in 1..(MaxWindows + 1) }

IsFeatureFrame(df) == df.columns = FEATURE_COLS

\* The schema of a classifier trained on the six short names with
\* get_dummies(drop_first=True): "details" is the baseline.
TrainedModel ==
    [has |-> TRUE,
     names |-> << <<"total_requests">>, <<"unique_ips">>,
                  <<"max_requests_per_ip">>, <<"avg_requests_per_ip">>,
                  <<"error_rate">>, <<"avg_response_time">>,
                  <<"pod_shortname", "product">>, <<"pod_shortname", "ratings">>,
                  <<"pod_shortname", "reviews1">>, <<"pod_shortname", "reviews2">>,
                  <<"pod_shortname", "reviews3">> >>]

GenericModels ==
    { [has |-> TRUE, names |-> q] :
        q \in Arrangements(SeqToSet(Letters), MaxCols) \ { <<>> } }

EncModels == GenericModels \cup {TrainedModel, [has |-> FALSE, names |-> <<>>]}

Encode ==
    /\ ~encDone
    /\ encOut' = InferenceFrame(encIn, encModel)
    /\ encDone' = TRUE
    /\ UNCHANGED << encIn, encModel, loopVars, clusterVars, lastUpload, extVars >>

EncInit ==
    /\ LoopInit
    /\ ClusterInit
    /\ virtualService = patch_body
    /\ replicas = 0
    /\ encIn \in GenericFrames \cup FeatureFrames
    /\ encModel \in EncModels
    /\ encOut = EmptyFrame
    /\ encDone = FALSE
    /\ ExtIdle

EncSpec == EncInit /\ [][Encode]_vars


(***************************************************************************)
(* extract_features on its own: a log file and a pod are given, and the    *)
(* feature vectors are computed.                                           *)
(***************************************************************************)
\* The payload of a line: the keys a sentinel is given for are absent.
Dict(ip, code, dur) ==
    [k \in (IF ip = "" THEN {} ELSE {"client_ip"})
            \cup (IF code < 0 THEN {} ELSE {"response_code"})
            \cup (IF dur < 0 THEN {} ELSE {"duration"}) |->
        IF k = "client_ip" THEN ip
        ELSE IF k = "response_code" THEN code ELSE dur]

JsonLine(t, ip, code, dur) ==
    [kind |-> "json", timestamp |-> t, data |-> Dict(ip, code, dur)]

\* The lines a log is made of: the four kinds that are skipped, and records
\* in three bins (one of them two windows later) with or without a client
\* address and a response code on either side of 400.
FreeLines ==
    { [kind |-> "blank"], [kind |-> "token"],
      [kind |-> "text", timestamp |-> 19], [kind |-> "badjson", timestamp |-> 19],
      JsonLine(19, "ip1", 400, 3) }
        \cup { JsonLine(t, ip, code, -1) :
                  t \in {19, 20, 60}, ip \in {"", "ip1", "ip2"},
                  code \in {-1, 399, 400} }

\* Lines that bring a log to one line below the threshold.
Pads ==
    { <<>>,
      [i \in 1..(threshold - 1) |->
          IF i % 4 = 0 THEN [kind |-> "blank"]
          ELSE IF i % 4 = 1 THEN [kind |-> "token"]
          ELSE IF i % 4 = 2 THEN [kind |-> "text", timestamp |-> 19]
          ELSE [kind |-> "badjson", timestamp |-> 19]],
      [i \in 1..(threshold - 1) |-> JsonLine(19, "ip1", 400, -1)] }

\* 15 records of one window: 3 with a response code >= 400, 5 client
\* addresses, one of them 6 times.
ExampleLog ==
    [i \in 1..15 |->
        JsonLine(5,
                 IF i <= 6 THEN "ip1" ELSE IF i <= 9 THEN "ip2"
                 ELSE IF i <= 11 THEN "ip3" ELSE IF i <= 13 THEN "ip4" ELSE "ip5",
                 IF i \in {1, 7, 10} THEN 500 ELSE 200,
                 2)]

ExtLogs ==
    { pad \o free :
        pad \in Pads, free \in UNION { [1..n -> FreeLines] : n \in 0..MaxLines } }
        \cup {ExampleLog}

ExtractFeatures ==
    /\ ~extDone
    /\ extOut' = extract_features(extFile, extPod)
    /\ extDone' = TRUE
    /\ UNCHANGED << extFile, extPod, loopVars, clusterVars, lastUpload, encVars >>

ExtInit ==
    /\ LoopInit
    /\ ClusterInit
    /\ virtualService = patch_body
    /\ replicas = 0
    /\ EncIdle
    /\ extFile \in { [exists |-> FALSE, lines |-> <<>>] }
                    \cup { [exists |-> TRUE, lines |-> l] : l \in ExtLogs }
    /\ extPod \in {SuspectPod, FallbackPod}
    /\ extOut = None
    /\ extDone = FALSE

ExtSpec == ExtInit /\ [][ExtractFeatures]_vars


(***************************************************************************)
(* Properties.                                                             *)
(***************************************************************************)
Diverted ==
    /\ Weight(virtualService, "v1") = 0
    /\ Weight(virtualService, "v2") = 100
    /\ replicas = 0

IsSuspect(p) == StartsWith(Chars(p), Chars("ratings-v1"))

\* A window of ratings-v1 was predicted 1 in this cycle.
SuspectPositive ==
    \E i \in DOMAIN global_ddos_rows : IsSuspect(global_ddos_rows[i].pod_name)

\* A row of ratings-v1 was explained in this cycle.
SuspectExplained == \E r \in all_explanations : IsSuspect(r.pod_name)

CycleEnded == pc = "sleep"

C3_BothPatchesAttempted ==
    lastRemedy # NoRemedy =>
        (lastRemedy.route \in {"ok", "fail"} /\ lastRemedy.scale \in {"ok", "fail"})

\* C4: after one or more invocations in a row that made both patches, the
\* route is exactly v1 0, v2 100 and ratings-v1 has 0 replicas, whatever the
\* cluster was before.
C4_Idempotent ==
    streak >= 1 =>
        /\ virtualService = patch_body
        /\ Diverted

C4_Witness == streak = 2 /\ Diverted /\ lastUpload.triggered

\* C5, as stated: when the collection for ratings-v1 failed with NotFound,
\* the next collection call is issued for its fallback, and in later cycles
\* no collection is issued for ratings-v1.
C5_FallbackResolution ==
    [][lastCollect'.n > lastCollect.n =>
        /\ (lastCollect.pod = SuspectPod /\ lastCollect.outcome = "NotFound")
              => lastCollect'.pod = FallbackPod
        /\ nfSeen = "earlier" => lastCollect'.pod # SuspectPod]_vars

\* C6, as stated: whatever exception a pod's collection, extraction or
\* classification raised, at the end of the cycle every pod has been
\* collected and explain_all_ddos_rows has been called.
C6_FaultIsolation ==
    CycleEnded => (lastCollect.n >= Len(POD_NAMES) /\ explainCalled)

\* C7: while the batch is explained or posted, and after, every pod of the
\* cycle has been collected and its iteration has ended.
C7_AllPodsBeforeExplain ==
    (explainCalled \/ pc \in {"explain", "post"} \/ postResult # "none") =>
        /\ podIdx = Len(POD_NAMES) + 1
        /\ lastCollect.n >= Len(POD_NAMES)
        /\ features_df = 0

C7_Witness ==
    /\ postResult = "posted"
    /\ Len(global_ddos_rows) >= 2

NewCycle == pc = "collect" /\ podIdx = 1

\* C8: every cycle ends, whatever failed in it, and after every end of a
\* cycle a next cycle starts.
C8_LoopNeverStops ==
    /\ []<>CycleEnded
    /\ CycleEnded ~> NewCycle

C8_Witness ==
    /\ CycleEnded
    /\ ~explainCalled
    /\ lastCollect.outcome = "ok"

\* C9, as stated: the reconciled frame has exactly the schema's columns in the
\* schema's order; a schema column the input lacks is 0 and the others keep
\* their input values.
C9_ReconciledToSchema ==
    (encDone /\ encModel.has) =>
        /\ encOut.columns = encModel.names
        /\ \A i \in DOMAIN encOut.rows :
            \A c \in SeqToSet(encModel.names) :
                /\ c \in DOMAIN encOut.rows[i]
                /\ encOut.rows[i][c] =
                      IF c \in SeqToSet(encIn.columns) THEN encIn.rows[i][c] ELSE 0

\* C10, as stated: in the frame given to the classifier, the indicator column
\* of the pod's own category is 1 and every other indicator column is 0.
C10_OneHotAgainstSchema ==
    (encDone /\ encModel = TrainedModel /\ IsFeatureFrame(encIn)) =>
        \A i \in DOMAIN encOut.rows :
            \A c \in SeqToSet(encModel.names) :
                (Len(c) = 2 /\ c[1] = "pod_shortname") =>
                    encOut.rows[i][c] =
                        IF encIn.rows[i][<<"pod_shortname">>] = c[2] THEN 1 ELSE 0

\* C11: a pod whose log of this cycle has fewer lines than the threshold gets
\* no feature vector: it is not classified, no row of it is in the batch or in
\* the report, and no patch is issued on its behalf.
C11_BelowThresholdSkipped ==
    /\ pc = "predict" =>
          (logFiles[pod_name] >= threshold /\ features_df > 0)
    /\ logFiles[pod_name] < threshold => features_df = 0
    /\ \A i \in DOMAIN global_ddos_rows :
          logFiles[global_ddos_rows[i].pod_name] >= threshold
    /\ \A r \in all_explanations : logFiles[r.pod_name] >= threshold
    /\ (cycRoutePatches > 0 \/ cycScalePatches > 0) =>
          \E r \in all_explanations :
              IsSuspect(r.pod_name) /\ logFiles[r.pod_name] >= threshold

C11_Witness ==
    /\ pc = "explain"
    /\ logFiles[SuspectPod] = threshold - 1
    /\ logFiles[FallbackPod] = -1
    /\ global_ddos_rows # <<>>

\* The lines of the file that are well-formed: a timestamp and a payload
\* that decodes.
WellFormed == { i \in DOMAIN extFile.lines : extFile.lines[i].kind = "json" }

\* The well-formed lines of the 20-second window that starts at w.
InWindow(w) ==
    { i \in WellFormed :
        LET t == extFile.lines[i].timestamp IN t - (t % 20) = w }

HasKey(i, key) == key \in DOMAIN extFile.lines[i].data

\* C12: every feature vector comes from a window with a record, its
\* error_rate is between 0 and 100, and total_requests >= unique_ips >= 0,
\* also when records lack the client address, the response code or the
\* duration.
C12_VectorInvariants ==
    extDone =>
        \A k \in DOMAIN extOut.vectors :
            LET v == extOut.vectors[k]
            IN /\ InWindow(v.timestamp) # {}
               /\ v.total_requests >= 1
               /\ v.error_rate.den > 0
               /\ 0 <= v.error_rate.num
               /\ v.error_rate.num <= 100 * v.error_rate.den
               /\ v.total_requests >= v.unique_ips
               /\ v.unique_ips >= 0

C12_Witness ==
    /\ extDone
    /\ \E k \in DOMAIN extOut.vectors :
        LET recs == InWindow(extOut.vectors[k].timestamp)
        IN /\ \E i \in recs : ~HasKey(i, "client_ip")
           /\ \E i \in recs : ~HasKey(i, "response_code")
           /\ \E i \in recs : ~HasKey(i, "duration")
           /\ \E i \in recs : HasKey(i, "client_ip") /\ HasKey(i, "response_code")

\* C13: there is one feature vector for each 20-second window with a record,
\* in the order of time; its total_requests is the number of records of the
\* window, unique_ips the number of distinct client addresses,
\* max_requests_per_ip the largest number of records of one client (0 without
\* clients) and error_rate 100 times the share of records with a response
\* code >= 400; the 15 records of the example give 15, 5, 6 and 20.
C13_WindowFeatures ==
    extDone =>
        /\ ~extOut.none =>
            /\ { extOut.vectors[k].timestamp : k \in DOMAIN extOut.vectors }
                  = { extFile.lines[i].timestamp - (extFile.lines[i].timestamp % 20) :
                        i \in WellFormed }
            /\ \A j, k \in DOMAIN extOut.vectors :
                  j < k => extOut.vectors[j].timestamp < extOut.vectors[k].timestamp
            /\ \A k \in DOMAIN extOut.vectors :
                LET v == extOut.vectors[k]
                    recs == InWindow(v.timestamp)
                    clients == { extFile.lines[i].data.client_ip :
                                   i \in { j \in recs : HasKey(j, "client_ip") } }
                    of(c) == Cardinality({ i \in recs :
                                 /\ HasKey(i, "client_ip")
                                 /\ extFile.lines[i].data.client_ip = c })
                    errs == { i \in recs :
                                 /\ HasKey(i, "response_code")
                                 /\ extFile.lines[i].data.response_code >= 400 }
                IN /\ v.total_requests = Cardinality(recs)
                   /\ v.unique_ips = Cardinality(clients)
                   /\ clients = {} => v.max_requests_per_ip = 0
                   /\ \A c \in clients : of(c) <= v.max_requests_per_ip
                   /\ clients # {} => \E c \in clients : of(c) = v.max_requests_per_ip
                   /\ v.error_rate.den > 0
                   /\ v.error_rate.num * Cardinality(recs)
                         = 100 * Cardinality(errs) * v.error_rate.den
        /\ extFile.lines = ExampleLog =>
            /\ Len(extOut.vectors) = 1
            /\ extOut.vectors[1].total_requests = 15
            /\ extOut.vectors[1].unique_ips = 5
            /\ extOut.vectors[1].max_requests_per_ip = 6
            /\ extOut.vectors[1].error_rate.num = 20 * extOut.vectors[1].error_rate.den

C13_Witness ==
    /\ extDone
    /\ Len(extOut.vectors) = 2
    /\ extOut.vectors[2].timestamp = 60
    /\ extOut.vectors[1].total_requests = threshold
    /\ extOut.vectors[1].unique_ips = 2
    /\ extOut.vectors[1].max_requests_per_ip = threshold - 1
    /\ extOut.vectors[1].error_rate.num = 90 * extOut.vectors[1].error_rate.den

RECURSIVE SumTotals(_, _)
SumTotals(vectors, k) ==
    IF k > Len(vectors) THEN 0
    ELSE vectors[k].total_requests + SumTotals(vectors, k + 1)

\* C18: for a log of at least threshold lines, the lines that are blank,
\* have no payload, have a payload without a leading '{' or fail to decode
\* are skipped: extraction gives None exactly when no line is well-formed,
\* and otherwise the vectors count exactly the well-formed lines, each in
\* its window.
C18_TolerantParsing ==
    (extDone /\ extFile.exists /\ Len(extFile.lines) >= threshold) =>
        /\ extOut.none <=> WellFormed = {}
        /\ SumTotals(extOut.vectors, 1) = Cardinality(WellFormed)
        /\ \A k \in DOMAIN extOut.vectors :
            extOut.vectors[k].total_requests
                = Cardinality(InWindow(extOut.vectors[k].timestamp))

C18_Witness ==
    /\ extDone
    /\ ~extOut.none
    /\ \A kind \in {"blank", "token", "text", "badjson"} :
          \E i \in DOMAIN extFile.lines : extFile.lines[i].kind = kind
    /\ SumTotals(extOut.vectors, 1) = 2

\* C14: the batch handed to explain_all_ddos_rows is exactly the rows labeled
\* 1 in this cycle, of all pods, each with its pod, timestamp and original
\* index: one entry per pod with a positive row, no entry without rows, no row
\* labeled 0 and none of an earlier cycle; it is empty when no row was labeled 1.
C14_BatchIsThisCyclesPositives ==
    (pc = "explain" \/ explainCalled) =>
        /\ CombinedRows(global_ddos_rows) = labeled
        /\ \A i \in DOMAIN global_ddos_rows :
            /\ global_ddos_rows[i].rows # {}
            /\ \A r \in global_ddos_rows[i].rows :
                /\ r.pod_name = global_ddos_rows[i].pod_name
                /\ r.timestamp = 20 * r.original_index
        /\ \A i, j \in DOMAIN global_ddos_rows :
              i # j => global_ddos_rows[i].pod_name # global_ddos_rows[j].pod_name
        /\ labeled = {} <=> global_ddos_rows = <<>>

C14_Witness ==
    /\ pc = "explain"
    /\ nfSeen = "earlier"
    /\ Cardinality({ r.pod_name : r \in labeled }) >= 2

\* C15: when explain_all_ddos_rows did not fail as a whole, the explained rows
\* are exactly the rows of the batch whose explanation did not raise, and a
\* report that is POSTed holds exactly those rows, each with its timestamp,
\* pod and original index.
C15_RowFailureSkipsOnlyThatRow ==
    /\ (explainCalled /\ ~explainRaised) =>
          all_explanations = CombinedRows(global_ddos_rows) \ rowFailures
    /\ \A i \in DOMAIN posts :
          /\ posts[i] = labeled \ rowFailures
          /\ posts[i] # {}
    /\ (CycleEnded /\ explainCalled /\ ~explainRaised /\ labeled \ rowFailures # {})
          => posts # <<>>

C15_Witness ==
    /\ posts # <<>>
    /\ rowFailures # {}
    /\ \E r \in posts[1] : IsSuspect(r.pod_name)

\* C16: a cycle issues at most one POST and never repeats it: at the end of a
\* cycle one POST has been issued when a row was explained and none
\* otherwise, whatever the POST returned, and the report of a POST is the
\* report of the cycle it is issued in.
C16_AtMostOnePost ==
    /\ Len(posts) <= 1
    /\ Len(posts) = 1 <=> postResult # "none"
    /\ CycleEnded => (Len(posts) = 1 <=> all_explanations # {})
    /\ \A i \in DOMAIN posts : posts[i] = all_explanations

C16_Witness ==
    /\ CycleEnded
    /\ postResult \in {"failed", "error"}
    /\ sinkStage = "save_failed"
    /\ Len(posts) = 1

\* C17: the lines of the file features are extracted from are exactly the
\* lines fetched by this cycle's call for the pod, and after a fetch that
\* failed the file of the pod is empty.
C17_BufferHoldsThisFetch ==
    /\ pc \in {"extract", "predict"} =>
          (lastCollect.pod = pod_name /\ logFiles[pod_name] = lastCollect.lines)
    /\ lastCollect.outcome = "ok" => logFiles[lastCollect.pod] = lastCollect.lines
    /\ lastCollect.outcome \in {"NotFound", "error"} => logFiles[lastCollect.pod] = 0

C17_Witness ==
    /\ nfSeen = "earlier"
    /\ lastCollect.pod = SuspectPod
    /\ lastCollect.outcome = "error"
    /\ logFiles[SuspectPod] = 0

\* C19: once the route gives ratings-v1 weight 0 and the deployment has 0
\* replicas, no step of the loop or of the sink sets the weight or the
\* replicas above 0.
C19_OneDirectional ==
    [][(Weight(virtualService, "v1") = 0 /\ replicas = 0) =>
          (Weight(virtualService', "v1") = 0 /\ replicas' = 0)]_vars

C19_Witness ==
    /\ Weight(virtualService, "v1") = 0
    /\ replicas = 0
    /\ streak = 2
    /\ NewCycle

\* C20: an upload the sink accepts, saves and reads triggers the remediation
\* if and only if a row of the report names a pod that begins with
\* 'ratings-v1'; an upload without such a row changes neither the route nor
\* the replicas.
C20_TriggerIffSuspectRow ==
    [][LET r == lastUpload'
           suspectRow == \E p \in r.req.rows : IsSuspect(p)
       IN /\ r.triggered <=>
                /\ r.req.hasFile
                /\ r.req.filename # ""
                /\ r.saved
                /\ r.read
                /\ suspectRow
          /\ ~suspectRow => UNCHANGED << virtualService, replicas >>
          /\ (virtualService' # virtualService \/ replicas' # replicas)
                => r.triggered]_vars

C20_Witness ==
    /\ lastUpload.triggered
    /\ lastUpload.req.rows = {SuspectPod, FallbackPod}
    /\ Diverted

\* C21, as stated: every upload with a file and a non-empty filename is
\* answered with 200, whatever became of the report and of the patches; an
\* upload is answered with 400 exactly when the file field is missing or the
\* filename is empty, and then nothing was saved and no remediation was
\* triggered.
C21_ResponseIndependentOfRemediation ==
    lastUpload.status # 0 =>
        /\ (lastUpload.req.hasFile /\ lastUpload.req.filename # "")
              => lastUpload.status = 200
        /\ lastUpload.status = 400
              <=> (~lastUpload.req.hasFile \/ lastUpload.req.filename = "")
        /\ lastUpload.status = 400
              => (lastUpload.stage = "rejected" /\ ~lastUpload.triggered)

=============================================================================
